---- MODULE Spec2Model ----
(***************************************************************************)
(* A model of wcr (src/src/lib.rs): get_args, run, format_field, open and  *)
(* count.  Text is modelled as TLA+ strings, streams as sequences of bytes *)
(* (0..255), decoded as UTF-8 the way BufRead::read_line decodes them.      *)
(***************************************************************************)
EXTENDS Integers, Sequences, FiniteSets, TLC

VARIABLES
    pc,          \* position of the process
    matches,     \* what the command line gave: files and the four flags
    config,      \* the Config get_args returned (NoConfig before / without)
    i,           \* run: number of elements the for loop has taken from config.files
    file_count,  \* run: file_count
    total,       \* run: total_lines, total_words, total_bytes, total_chars
    stdout,      \* lines printed with println!, each with the statement that printed it
    stderr,      \* lines printed with eprintln!
    log,         \* history: for each source processed, its name and what open and count returned
    ret,         \* value run returned ("none" while it has not)
    input,       \* the argument of a direct call of count or format_field
    result       \* what that call returned ("none" while it has not)

vars == <<pc, matches, config, i, file_count, total, stdout, stderr, log, ret, input, result>>

-----------------------------------------------------------------------------
(* Bounds of the model *)

MaxLen == 4      \* longest stream given to count on its own
MaxFiles == 3    \* longest list of sources given to run

-----------------------------------------------------------------------------
(* Bytes and characters *)

TAB == 9
LF == 10
CR == 13
SPACE == 32
LETTER == 97     \* 'a'
LEAD2 == 194     \* 0xC2, first byte of U+0080..U+00BF
NBSP2 == 160     \* 0xA0: C2 A0 is U+00A0 NO-BREAK SPACE (White_Space)
COPY2 == 169     \* 0xA9: C2 A9 is U+00A9 COPYRIGHT SIGN (not White_Space)

Max(a, b) == IF a > b THEN a ELSE b

IsCont(b) == b >= 128 /\ b <= 191

\* Number of bytes of the UTF-8 sequence that starts s at position p, 0 when
\* the bytes there are not a well-formed sequence (core::str::from_utf8).
Utf8Width(s, p) ==
    LET b == s[p]
        n == Len(s)
        c(k) == IF p + k <= n THEN s[p + k] ELSE 0
    IN  IF b < 128 THEN 1
        ELSE IF b >= 194 /\ b <= 223
             THEN IF IsCont(c(1)) THEN 2 ELSE 0
        ELSE IF b >= 224 /\ b <= 239
             THEN IF /\ IsCont(c(1)) /\ IsCont(c(2))
                     /\ (b = 224 => c(1) >= 160)
                     /\ (b = 237 => c(1) <= 159)
                  THEN 3 ELSE 0
        ELSE IF b >= 240 /\ b <= 244
             THEN IF /\ IsCont(c(1)) /\ IsCont(c(2)) /\ IsCont(c(3))
                     /\ (b = 240 => c(1) >= 144)
                     /\ (b = 244 => c(1) <= 143)
                  THEN 4 ELSE 0
        ELSE 0

\* The code point of the well-formed sequence of w bytes at position p.
CodePoint(s, p, w) ==
    IF w = 1 THEN s[p]
    ELSE IF w = 2 THEN (s[p] - 192) * 64 + (s[p + 1] - 128)
    ELSE IF w = 3 THEN (s[p] - 224) * 4096 + (s[p + 1] - 128) * 64 + (s[p + 2] - 128)
    ELSE (s[p] - 240) * 262144 + (s[p + 1] - 128) * 4096
             + (s[p + 2] - 128) * 64 + (s[p + 3] - 128)

RECURSIVE DecodeFrom(_, _)
\* <<TRUE, code points>> of s from position p on, or <<FALSE, <<>>>> when malformed.
DecodeFrom(s, p) ==
    IF p > Len(s) THEN <<TRUE, <<>>>>
    ELSE LET w == Utf8Width(s, p)
         IN  IF w = 0 THEN <<FALSE, <<>>>>
             ELSE LET rest == DecodeFrom(s, p + w)
                  IN  IF rest[1] THEN <<TRUE, <<CodePoint(s, p, w)>> \o rest[2]>>
                      ELSE <<FALSE, <<>>>>

ValidUtf8(s) == DecodeFrom(s, 1)[1]

\* buffer.chars(): the code points of a String (always valid UTF-8).
chars(s) == DecodeFrom(s, 1)[2]

\* A whitespace test that, like a hand-written one, leaves the carriage return out.
is_whitespace_no_cr(c) ==
    \/ c >= 9 /\ c <= 12
    \/ c \in {32, 133, 160, 5760, 8232, 8233, 8239, 8287, 12288}
    \/ c >= 8192 /\ c <= 8202

\* char::is_whitespace: the Unicode White_Space property.
is_whitespace(c) ==
    \/ c >= 9 /\ c <= 13
    \/ c = 32
    \/ c = 133
    \/ c = 160
    \/ c = 5760
    \/ c >= 8192 /\ c <= 8202
    \/ c = 8232
    \/ c = 8233
    \/ c = 8239
    \/ c = 8287
    \/ c = 12288

\* A variant that splits on every single whitespace character and keeps the
\* empty pieces apart, as str::split(char::is_whitespace) would.
RECURSIVE split_count_empty(_)
split_count_empty(cs) ==
    IF cs = <<>> THEN 1
    ELSE (IF is_whitespace(Head(cs)) THEN 1 ELSE 0) + split_count_empty(Tail(cs))

\* buffer.split_whitespace().count(): the number of maximal runs of
\* non-whitespace characters.
split_whitespace_count(cs) ==
    Cardinality({k \in 1..Len(cs) :
        /\ ~is_whitespace(cs[k])
        /\ (k = 1 \/ is_whitespace(cs[k - 1]))})

-----------------------------------------------------------------------------
(* count *)

ErrUtf8 == "stream did not contain valid UTF-8"
ErrIsDir == "Is a directory (os error 21)"
ErrNoFile == "No such file or directory (os error 2)"

Err(msg) == [ok |-> FALSE, err |-> msg]
Ok(v) == [ok |-> TRUE, val |-> v]

\* A stream: its bytes, and whether reading it fails (a directory opened as a file).
Stream(bytes, io_error) == [bytes |-> bytes, io_error |-> io_error]

\* BufRead::read_line on what is left of the stream: the bytes up to and
\* including the first line feed, or all of them when there is none.
LineEnd(rest) ==
    IF \E k \in 1..Len(rest) : rest[k] = LF
    THEN CHOOSE k \in 1..Len(rest) : rest[k] = LF /\ \A j \in 1..(k - 1) : rest[j] # LF
    ELSE Len(rest)

read_line(rest) ==
    LET n == LineEnd(rest)
        chunk == SubSeq(rest, 1, n)
    IN  IF ValidUtf8(chunk) THEN Ok([n |-> n, text |-> chunk]) ELSE Err(ErrUtf8)

FileInfo(l, w, b, c) ==
    [num_lines |-> l, num_words |-> w, num_bytes |-> b, num_chars |-> c]

\* A loop that counts line terminators instead of successful reads.
RECURSIVE count_loop_terminated(_, _, _)
count_loop_terminated(rest, buffer, num_lines) ==
    LET r == read_line(rest)
    IN  IF ~r.ok THEN r
        ELSE IF r.val.n > 0
        THEN count_loop_terminated(SubSeq(rest, r.val.n + 1, Len(rest)),
                        buffer \o r.val.text,
                        IF rest[r.val.n] = LF THEN num_lines + 1 ELSE num_lines)
        ELSE Ok([buffer |-> buffer, num_lines |-> num_lines])

RECURSIVE count_loop(_, _, _)
\* while file.read_line(&mut buffer)? > 0 { num_lines += 1; }
count_loop(rest, buffer, num_lines) ==
    LET r == read_line(rest)
    IN  IF ~r.ok THEN r
        ELSE IF r.val.n > 0
        THEN count_loop(SubSeq(rest, r.val.n + 1, Len(rest)),
                        buffer \o r.val.text, num_lines + 1)
        ELSE Ok([buffer |-> buffer, num_lines |-> num_lines])

num_words_of(buffer) == split_whitespace_count(chars(buffer))

\* A byte count taken from the decoded characters.
num_bytes_as_chars(buffer) == Len(chars(buffer))

num_bytes_of(buffer) == Len(buffer)

num_chars_of(buffer) == Len(chars(buffer))

count(file) ==
    IF file.io_error THEN Err(ErrIsDir)
    ELSE LET r == count_loop(file.bytes, <<>>, 0)
         IN  IF ~r.ok THEN r
             ELSE Ok(FileInfo(r.val.num_lines,
                              num_words_of(r.val.buffer),
                              num_bytes_of(r.val.buffer),
                              num_chars_of(r.val.buffer)))

-----------------------------------------------------------------------------
(* The state every specification starts the unused parts in *)

NoConfig == [files |-> <<>>, lines |-> FALSE, words |-> FALSE,
             bytes |-> FALSE, chars |-> FALSE]
NoStream == Stream(<<>>, FALSE)
ZeroTotal == FileInfo(0, 0, 0, 0)

-----------------------------------------------------------------------------
(* count on its own: every stream of at most MaxLen bytes over Bytes *)

Bytes == {TAB, LF, CR, SPACE, LETTER, LEAD2, NBSP2, COPY2}

RECURSIVE SeqsUpTo(_, _)
SeqsUpTo(S, n) ==
    IF n = 0 THEN {<<>>}
    ELSE LET shorter == SeqsUpTo(S, n - 1)
         IN  shorter \cup {Append(s, b) : s \in {t \in shorter : Len(t) = n - 1}, b \in S}

CountInputs ==
    {Stream(s, FALSE) : s \in SeqsUpTo(Bytes, MaxLen)} \cup {Stream(<<>>, TRUE)}

InitCount ==
    /\ pc = "count"
    /\ input \in CountInputs
    /\ result = "none"
    /\ matches = NoConfig
    /\ config = NoConfig
    /\ i = 0
    /\ file_count = 0
    /\ total = ZeroTotal
    /\ stdout = <<>>
    /\ stderr = <<>>
    /\ log = <<>>
    /\ ret = "none"

Count ==
    /\ pc = "count"
    /\ result' = count(input)
    /\ pc' = "counted"
    /\ UNCHANGED <<matches, config, i, file_count, total, stdout, stderr, log, ret, input>>

NextCount == Count

SpecCount == InitCount /\ [][NextCount]_vars

Counted == pc = "counted" /\ result.ok
info == result.val

-----------------------------------------------------------------------------
(* format_field and the lines run prints *)

Width == 8

DigitChar(d) == SubSeq("0123456789", d + 1, d + 1)

RECURSIVE to_string(_)
\* Display of a usize: its decimal digits.
to_string(n) ==
    IF n < 10 THEN DigitChar(n) ELSE to_string(n \div 10) \o DigitChar(n % 10)

RECURSIVE Spaces(_)
Spaces(n) == IF n <= 0 THEN "" ELSE " " \o Spaces(n - 1)

\* A formatter that cuts the value to the field's width.
format_field_truncating(value, show) ==
    LET digits == to_string(value)
        n == Len(digits)
    IN  IF show
        THEN Spaces(Width - n) \o SubSeq(digits, Max(1, n - Width + 1), n)
        ELSE ""

\* format!("{value:>8}") when show, "" otherwise.
format_field(value, show) ==
    IF show
    THEN Spaces(Width - Len(to_string(value))) \o to_string(value)
    ELSE ""

\* The four fields of a line, in the order run formats them.
fields(cfg, fi) ==
    format_field(fi.num_lines, cfg.lines)
        \o format_field(fi.num_words, cfg.words)
        \o format_field(fi.num_bytes, cfg.bytes)
        \o format_field(fi.num_chars, cfg.chars)

\* println!("{}{}{}{}{}", ...) for one source.
source_line(cfg, filename, fi) ==
    fields(cfg, fi) \o (IF filename = "-" THEN "" ELSE " " \o filename)

\* println!("{}{}{}{} total", ...).
total_line(cfg, tot) == fields(cfg, tot) \o " total"

\* eprintln!("{}: {}", filename, err).
error_line(filename, err) == filename \o ": " \o err

\* An accumulation that takes the character total from the byte count.
add_totals_bytes_for_chars(tot, fi) ==
    FileInfo(tot.num_lines + fi.num_lines,
             tot.num_words + fi.num_words,
             tot.num_bytes + fi.num_bytes,
             tot.num_chars + fi.num_bytes)

\* total_x = total_x + file_info.num_x, for the four fields.
add_totals(tot, fi) ==
    FileInfo(tot.num_lines + fi.num_lines,
             tot.num_words + fi.num_words,
             tot.num_bytes + fi.num_bytes,
             tot.num_chars + fi.num_chars)

\* A test for the total line that one source already passes.
print_total_from_one(n) == n >= 1

\* if file_count > 1
print_total(n) == n > 1

-----------------------------------------------------------------------------
(* get_args *)

\* A parser without the conflict between --chars and --bytes.
conflicts_none(m) == FALSE

\* Arg::new("chars") ... .conflicts_with("bytes"): get_matches ends the process.
conflicts(m) == m.chars /\ m.bytes

\* A default that switches every count on.
resolve_flags_all_four(m) ==
    IF ~m.lines /\ ~m.words /\ ~m.bytes /\ ~m.chars
    THEN [m EXCEPT !.lines = TRUE, !.words = TRUE, !.bytes = TRUE, !.chars = TRUE]
    ELSE m

\* The Config get_args builds from the parsed flags.
resolve_flags(m) ==
    IF ~m.lines /\ ~m.words /\ ~m.bytes /\ ~m.chars
    THEN [m EXCEPT !.lines = TRUE, !.words = TRUE, !.bytes = TRUE]
    ELSE m

-----------------------------------------------------------------------------
(* open *)

\* What the file system holds under a name when it is opened: nothing, or a stream.
World(exists, stream) == [exists |-> exists, stream |-> stream]

open(filename, world) ==
    IF filename = "-" THEN Ok(world.stream)
    ELSE IF world.exists THEN Ok(world.stream)
    ELSE Err(ErrNoFile)

-----------------------------------------------------------------------------
(* The program: get_args, then run *)

Names == {"-", "f"}

FileLists == SeqsUpTo(Names, MaxFiles) \ {<<>>}

\* The streams a source can hold: an empty one, "a a\n", a two-byte character
\* with a CRLF and an unterminated last line, a stream that ends inside a
\* character, and one whose read fails.
RunStreams ==
    { Stream(<<>>, FALSE),
      Stream(<<LETTER, SPACE, LETTER, LF>>, FALSE),
      Stream(<<LEAD2, COPY2, CR, LF, LETTER>>, FALSE),
      Stream(<<LETTER, LEAD2>>, FALSE),
      Stream(<<>>, TRUE) }

Worlds == {World(FALSE, NoStream)} \cup {World(TRUE, s) : s \in RunStreams}

\* Values on both sides of the width of a field.
FieldValues == {0, 9, 10, 9999999, 10000000, 99999999, 100000000, 123456789, 2147483647}

\* The process is started on a command line, or format_field is called on its own.
Init ==
    /\ \/ /\ pc = "start"
          /\ matches \in [files : FileLists, lines : BOOLEAN, words : BOOLEAN,
                          bytes : BOOLEAN, chars : BOOLEAN]
          /\ input = NoStream
       \/ /\ pc = "format"
          /\ matches = NoConfig
          /\ input \in [value : FieldValues, show : BOOLEAN]
    /\ config = NoConfig
    /\ i = 0
    /\ file_count = 0
    /\ total = ZeroTotal
    /\ stdout = <<>>
    /\ stderr = <<>>
    /\ log = <<>>
    /\ ret = "none"
    /\ result = "none"

\* get_matches() finds --chars together with --bytes and ends the process.
GetArgsExit ==
    /\ pc = "start"
    /\ conflicts(matches)
    /\ pc' = "exit"
    /\ UNCHANGED <<matches, config, i, file_count, total, stdout, stderr, log, ret,
                   input, result>>

GetArgsOk ==
    /\ pc = "start"
    /\ ~conflicts(matches)
    /\ config' = resolve_flags(matches)
    /\ pc' = "configured"
    /\ UNCHANGED <<matches, i, file_count, total, stdout, stderr, log, ret, input, result>>

\* The binary calls run with the Config get_args returned: the totals and
\* file_count start at zero.
RunEnter ==
    /\ pc = "configured"
    /\ total' = FileInfo(0, 0, 0, 0)
    /\ file_count' = 0
    /\ i' = 0
    /\ pc' = "loop"
    /\ UNCHANGED <<matches, config, stdout, stderr, log, ret, input, result>>

filename == config.files[i + 1]

LogEntry(name, stream, res) == [file |-> name, stream |-> stream, res |-> res]

\* One iteration of the loop in which open fails.
RunOpenErr ==
    /\ pc = "loop"
    /\ i < Len(config.files)
    /\ \E world \in Worlds :
          LET f == open(filename, world)
          IN  /\ ~f.ok
              /\ stderr' = Append(stderr, error_line(filename, f.err))
              /\ log' = Append(log, LogEntry(filename, NoStream, f))
    /\ i' = i + 1
    /\ file_count' = file_count + 1
    /\ UNCHANGED <<pc, matches, config, total, stdout, ret, input, result>>

\* An iteration that hands the error of count to the caller with `?`.
RunCountErrPropagates ==
    /\ pc = "loop"
    /\ i < Len(config.files)
    /\ \E world \in Worlds :
          LET f == open(filename, world)
              c == count(f.val)
          IN  /\ f.ok
              /\ ~c.ok
              /\ log' = Append(log, LogEntry(filename, f.val, c))
    /\ i' = i + 1
    /\ file_count' = file_count + 1
    /\ ret' = "Err"
    /\ pc' = "done"
    /\ UNCHANGED <<matches, config, total, stdout, stderr, input, result>>

\* One iteration of the loop in which open succeeds and count fails.
RunCountErr ==
    /\ pc = "loop"
    /\ i < Len(config.files)
    /\ \E world \in Worlds :
          LET f == open(filename, world)
              c == count(f.val)
          IN  /\ f.ok
              /\ ~c.ok
              /\ stderr' = Append(stderr, error_line(filename, c.err))
              /\ log' = Append(log, LogEntry(filename, f.val, c))
    /\ i' = i + 1
    /\ file_count' = file_count + 1
    /\ UNCHANGED <<pc, matches, config, total, stdout, ret, input, result>>

\* One iteration of the loop in which open and count succeed.
RunCountOk ==
    /\ pc = "loop"
    /\ i < Len(config.files)
    /\ \E world \in Worlds :
          LET f == open(filename, world)
              c == count(f.val)
          IN  /\ f.ok
              /\ c.ok
              /\ total' = add_totals(total, c.val)
              /\ stdout' = Append(stdout,
                     [stmt |-> "source", text |-> source_line(config, filename, c.val)])
              /\ log' = Append(log, LogEntry(filename, f.val, c))
    /\ i' = i + 1
    /\ file_count' = file_count + 1
    /\ UNCHANGED <<pc, matches, config, stderr, ret, input, result>>

\* After the loop: the total line, when file_count > 1.
RunTotal ==
    /\ pc = "loop"
    /\ i = Len(config.files)
    /\ \/ /\ print_total(file_count)
          /\ stdout' = Append(stdout,
                 [stmt |-> "total", text |-> total_line(config, total)])
       \/ /\ ~print_total(file_count)
          /\ UNCHANGED stdout
    /\ pc' = "return"
    /\ UNCHANGED <<matches, config, i, file_count, total, stderr, log, ret, input, result>>

\* Ok(())
RunReturn ==
    /\ pc = "return"
    /\ ret' = "Ok"
    /\ pc' = "done"
    /\ UNCHANGED <<matches, config, i, file_count, total, stdout, stderr, log, input, result>>

\* A direct call format_field(value, show).
FormatField ==
    /\ pc = "format"
    /\ result' = format_field(input.value, input.show)
    /\ pc' = "formatted"
    /\ UNCHANGED <<matches, config, i, file_count, total, stdout, stderr, log, ret, input>>

Next ==
    \/ FormatField
    \/ GetArgsExit
    \/ GetArgsOk
    \/ RunEnter
    \/ RunOpenErr
    \/ RunCountErr
    \/ RunCountOk
    \/ RunTotal
    \/ RunReturn

Spec == Init /\ [][Next]_vars

-----------------------------------------------------------------------------
(* Properties of count *)

Range(s) == {s[k] : k \in 1..Len(s)}
NumOf(b, s) == Cardinality({k \in 1..Len(s) : s[k] = b})
InsertAt(s, k, r) == SubSeq(s, 1, k) \o r \o SubSeq(s, k + 1, Len(s))
ReplaceAt(s, k, b) == [s EXCEPT ![k] = b]
RemoveAt(s, k) == SubSeq(s, 1, k - 1) \o SubSeq(s, k + 1, Len(s))
WordsOf(bytes) == count(Stream(bytes, FALSE)).val.num_words

\* C6: whenever count succeeds, num_chars <= num_bytes, the two are equal
\* exactly when every byte of the stream is a single-byte character (< 0x80),
\* and num_bytes is the length of the whole stream, CR and LF included.
C6_CharsAtMostBytes ==
    Counted =>
        /\ info.num_chars <= info.num_bytes
        /\ (info.num_chars = info.num_bytes) <=> (\A k \in 1..Len(input.bytes) : input.bytes[k] < 128)
        /\ info.num_bytes = Len(input.bytes)

C6_Witness ==
    /\ Counted
    /\ info.num_chars < info.num_bytes
    /\ CR \in Range(input.bytes)
    /\ LF \in Range(input.bytes)

\* C7: whenever count succeeds, num_lines is the number of line feeds in the
\* stream, plus one when the stream is not empty and does not end with a line
\* feed; an empty stream gives four zeros.
C7_LinesCountPartialLine ==
    Counted =>
        LET b == input.bytes
        IN  /\ info.num_lines = NumOf(LF, b)
                    + (IF b # <<>> /\ b[Len(b)] # LF THEN 1 ELSE 0)
            /\ (b = <<>> => info = FileInfo(0, 0, 0, 0))

C7_Witness ==
    /\ Counted
    /\ LF \in Range(input.bytes)
    /\ input.bytes[Len(input.bytes)] # LF
    /\ info.num_lines = 2

Separators == {SPACE, TAB, LF, CR}
SeparatorRuns == {<<a>> : a \in Separators} \cup {<<a, b>> : a, b \in Separators}

\* C8: whenever count succeeds, num_words does not change when a run of
\* separators is added next to a separator of the content, at its start or at
\* its end, and content made of separators only has num_words 0.
C8_WordsIgnoreWhitespaceAmount ==
    Counted =>
        LET b == input.bytes
        IN  /\ \A r \in SeparatorRuns :
                /\ WordsOf(r \o b) = info.num_words
                /\ WordsOf(b \o r) = info.num_words
                /\ \A k \in 1..Len(b) :
                       b[k] \in Separators =>
                           /\ WordsOf(InsertAt(b, k, r)) = info.num_words
                           /\ WordsOf(InsertAt(b, k - 1, r)) = info.num_words
            /\ (Range(b) \subseteq Separators => info.num_words = 0)

C8_Witness ==
    /\ Counted
    /\ Len(input.bytes) = 3
    /\ input.bytes[2] \in Separators
    /\ info.num_words = 2

\* The carriage returns of the content that stand between two characters
\* that are not whitespace.
CrBetweenWords ==
    {k \in 2..(Len(input.bytes) - 1) :
        /\ input.bytes[k] = CR
        /\ LET before == chars(SubSeq(input.bytes, 1, k - 1))
               after == chars(SubSeq(input.bytes, k + 1, Len(input.bytes)))
           IN  /\ ~is_whitespace(before[Len(before)])
               /\ ~is_whitespace(after[1])}

CrStillCounted(k) ==
    LET without == count(Stream(RemoveAt(input.bytes, k), FALSE)).val
    IN  /\ info.num_bytes = without.num_bytes + 1
        /\ info.num_chars = without.num_chars + 1

\* C9 as stated: a carriage return between two non-whitespace characters does
\* not split them (num_words is what it is with a letter in its place), and
\* it is counted in num_bytes and num_chars.
C9_CrNotSeparator ==
    Counted =>
        \A k \in CrBetweenWords :
            /\ WordsOf(ReplaceAt(input.bytes, k, LETTER)) = info.num_words
            /\ CrStillCounted(k)

\* C9 as amended: a carriage return is a word separator. Between two
\* non-whitespace characters it splits them into two words: num_words is what
\* it is with a space in its place, one more than with a letter in its place;
\* and it is counted in num_bytes and num_chars.
C9_CrIsSeparator ==
    Counted =>
        \A k \in CrBetweenWords :
            /\ WordsOf(ReplaceAt(input.bytes, k, SPACE)) = info.num_words
            /\ WordsOf(ReplaceAt(input.bytes, k, LETTER)) = info.num_words - 1
            /\ CrStillCounted(k)

C9_Witness ==
    /\ Counted
    /\ CrBetweenWords # {}

-----------------------------------------------------------------------------
(* Properties of get_args and run *)

InRun == pc \in {"loop", "return", "done"}

\* What open and count made of the k-th source processed.
Outcome(k) == log[k].res

Succeeded == {k \in 1..Len(log) : Outcome(k).ok}
Failed == {k \in 1..Len(log) : ~Outcome(k).ok}

RECURSIVE SumField(_, _)
\* The sum of one FileInfo field over the sources of S.
SumField(S, field) ==
    IF S = {} THEN 0
    ELSE LET k == CHOOSE x \in S : TRUE
         IN  Outcome(k).val[field] + SumField(S \ {k}, field)

\* The k-th element of a set of numbers, in increasing order.
Nth(S, k) == CHOOSE x \in S : Cardinality({y \in S : y < x}) = k - 1

SourceLines == SelectSeq(stdout, LAMBDA l : l.stmt = "source")
TotalLines == SelectSeq(stdout, LAMBDA l : l.stmt = "total")

\* C1: at every point of run, the four totals are the field-wise sums of the
\* FileInfo values of exactly the sources processed so far whose count
\* succeeded; a source whose open or count failed adds nothing.
C1_TotalsAreSumOfSuccesses ==
    InRun =>
        /\ total.num_lines = SumField(Succeeded, "num_lines")
        /\ total.num_words = SumField(Succeeded, "num_words")
        /\ total.num_bytes = SumField(Succeeded, "num_bytes")
        /\ total.num_chars = SumField(Succeeded, "num_chars")

C1_Witness ==
    /\ pc = "done"
    /\ Cardinality(Succeeded) >= 2
    /\ \E k \in Failed : Outcome(k) = Err(ErrNoFile)
    /\ total.num_chars > 0
    /\ total.num_chars < total.num_bytes

\* C2: the total line is printed at most once, only after every source has
\* been processed, and it is the last line of standard output; when run has
\* returned there is exactly one if the configuration lists more than one
\* source and none if it lists one, however many sources failed.
C2_TotalLineOnceIffSeveralSources ==
    InRun =>
        /\ Len(TotalLines) <= 1
        /\ Len(TotalLines) = 1 =>
               /\ stdout[Len(stdout)].stmt = "total"
               /\ i = Len(config.files)
               /\ pc \in {"return", "done"}
        /\ pc \in {"return", "done"} =>
               Len(TotalLines) = (IF Len(config.files) > 1 THEN 1 ELSE 0)

C2_Witness ==
    /\ pc = "done"
    /\ Len(config.files) > 1
    /\ Succeeded = {}
    /\ Len(TotalLines) = 1

\* C3: each source whose open or count failed has exactly one line
\* "<identifier>: <message>" on the diagnostic stream, in order, and no line
\* on standard output; the sources after it are still processed, and run
\* returns Ok(()) and nothing else.
C3_FailuresAreReportedAndSkipped ==
    InRun =>
        /\ Len(stderr) = Cardinality(Failed)
        /\ \A j \in 1..Len(stderr) :
               LET k == Nth(Failed, j)
               IN  stderr[j] = log[k].file \o ": " \o Outcome(k).err
        /\ Len(SourceLines) = Cardinality(Succeeded)
        /\ Len(log) = i
        /\ \A k \in 1..Len(log) : log[k].file = config.files[k]
        /\ ret \in {"none", "Ok"}
        /\ pc = "done" => (ret = "Ok" /\ Len(log) = Len(config.files))

C3_Witness ==
    /\ pc = "done"
    /\ ret = "Ok"
    /\ Len(log) = 3
    /\ Outcome(1) = Err(ErrNoFile)
    /\ Outcome(2) = Err(ErrUtf8)
    /\ Outcome(3).ok
    /\ Len(stderr) = 2

NoFlagGiven == ~matches.lines /\ ~matches.words /\ ~matches.bytes /\ ~matches.chars

\* C4: the Config get_args returns has lines, words and bytes true and chars
\* false when no flag was given, and the four parsed flags unchanged when at
\* least one was; chars is true only if it was given.
C4_DefaultFlags ==
    pc \in {"configured", "loop", "return", "done"} =>
        /\ NoFlagGiven =>
               config.lines /\ config.words /\ config.bytes /\ ~config.chars
        /\ ~NoFlagGiven =>
               /\ config.lines = matches.lines
               /\ config.words = matches.words
               /\ config.bytes = matches.bytes
               /\ config.chars = matches.chars
        /\ config.chars => matches.chars
        /\ config.files = matches.files

C4_Witness ==
    /\ pc = "configured"
    /\ NoFlagGiven
    /\ config.bytes

\* C5: when --chars and --bytes are both given, argument parsing ends the
\* process: no Config is produced, run is not entered, no source is opened
\* and nothing is printed.
C5_CharsWithBytesRejected ==
    (matches.chars /\ matches.bytes) =>
        /\ pc \in {"start", "exit"}
        /\ config = NoConfig
        /\ log = <<>>
        /\ stdout = <<>>
        /\ ret = "none"

C5_Witness ==
    /\ pc = "exit"
    /\ matches.chars /\ matches.bytes

-----------------------------------------------------------------------------
(* The text of the lines, read back *)

RECURSIVE NumDigits(_)
NumDigits(v) == IF v < 10 THEN 1 ELSE 1 + NumDigits(v \div 10)

CharAt(text, k) == SubSeq(text, k, k)
DigitChars == {"0", "1", "2", "3", "4", "5", "6", "7", "8", "9"}
DigitVal(c) == CHOOSE d \in 0..9 : CharAt("0123456789", d + 1) = c

RECURSIVE StrToNat(_)
StrToNat(text) ==
    IF Len(text) = 0 THEN 0
    ELSE StrToNat(SubSeq(text, 1, Len(text) - 1)) * 10 + DigitVal(CharAt(text, Len(text)))

\* How long a field is: nothing when not shown, else 8 or the digits of the value.
FieldLen(v, show) == IF show THEN Max(8, NumDigits(v)) ELSE 0

\* f is v right-aligned: spaces, then all the decimal digits of v.
FieldIs(f, v, show) ==
    LET pad == Len(f) - NumDigits(v)
    IN  /\ Len(f) = FieldLen(v, show)
        /\ show =>
              /\ \A k \in 1..pad : CharAt(f, k) = " "
              /\ \A k \in (pad + 1)..Len(f) : CharAt(f, k) \in DigitChars
              /\ StrToNat(SubSeq(f, pad + 1, Len(f))) = v

\* text is the four fields of fi in the order lines, words, bytes, chars, each
\* under its flag, and then the suffix.
LineIs(text, cfg, fi, suffix) ==
    LET l1 == FieldLen(fi.num_lines, cfg.lines)
        l2 == FieldLen(fi.num_words, cfg.words)
        l3 == FieldLen(fi.num_bytes, cfg.bytes)
        l4 == FieldLen(fi.num_chars, cfg.chars)
        p2 == l1
        p3 == l1 + l2
        p4 == l1 + l2 + l3
        end == l1 + l2 + l3 + l4
    IN  /\ Len(text) = end + Len(suffix)
        /\ FieldIs(SubSeq(text, 1, l1), fi.num_lines, cfg.lines)
        /\ FieldIs(SubSeq(text, p2 + 1, p2 + l2), fi.num_words, cfg.words)
        /\ FieldIs(SubSeq(text, p3 + 1, p3 + l3), fi.num_bytes, cfg.bytes)
        /\ FieldIs(SubSeq(text, p4 + 1, p4 + l4), fi.num_chars, cfg.chars)
        /\ SubSeq(text, end + 1, Len(text)) = suffix

\* C10: sources are processed in configuration order and standard output has
\* one line per successfully counted source, in that order: the fields lines,
\* words, bytes, chars, a field not shown being empty and a shown one the value
\* right-aligned to width 8 and never truncated, then " <identifier>" unless
\* the identifier is "-"; the total line has the same fields under the same
\* flags and comes last.
C10_OutputLinesInOrder ==
    /\ InRun =>
        /\ \A k \in 1..Len(log) : log[k].file = config.files[k]
        /\ Len(SourceLines) = Cardinality(Succeeded)
        /\ \A j \in 1..Len(SourceLines) :
               LET k == Nth(Succeeded, j)
               IN  LineIs(SourceLines[j].text, config, Outcome(k).val,
                          IF log[k].file = "-" THEN "" ELSE " " \o log[k].file)
        /\ \A j \in 1..Len(stdout) :
               stdout[j].stmt = "total" =>
                   /\ j = Len(stdout)
                   /\ LineIs(stdout[j].text, config, total, " total")
    /\ pc = "formatted" => FieldIs(result, input.value, input.show)

C10_Witness ==
    /\ pc = "done"
    /\ config.files = <<"f", "-", "f">>
    /\ Succeeded = {1, 2}
    /\ config.lines /\ ~config.words /\ config.chars
    /\ Len(stdout) = 3
    /\ stdout[3].stmt = "total"

====
